---------------------------- MODULE Spec2Model ----------------------------
(***************************************************************************)
(* A model of the moving-average crossover strategy (src/strategy.py) and  *)
(* of the backtesting engine (src/backtest.py).                            *)
(*                                                                         *)
(* Money is held by the engine in Python floats (IEEE-754 binary64).  The  *)
(* model keeps that arithmetic bit-exact: a float is a sign, a 53-bit      *)
(* mantissa and an exponent, and every operation rounds to nearest, ties   *)
(* to even, as the hardware does.  Mantissas do not fit the integers of    *)
(* the model checker, so they are kept as little-endian sequences of       *)
(* 15-bit limbs.                                                           *)
(***************************************************************************)
EXTENDS Integers, Sequences, FiniteSets

(***************************************************************************)
(* Natural numbers of arbitrary size: little-endian limb sequences, with   *)
(* no leading (last) zero limb; zero is the empty sequence.                *)
(***************************************************************************)
LimbBits == 15

Base == 32768

Pow2Table == <<1, 2, 4, 8, 16, 32, 64, 128, 256, 512, 1024, 2048, 4096, 8192, 16384, 32768>>

Pow2(k) == Pow2Table[k + 1]

RECURSIVE BNorm(_)
BNorm(a) ==
  IF a = <<>> THEN <<>>
  ELSE IF a[Len(a)] = 0 THEN BNorm(SubSeq(a, 1, Len(a) - 1))
  ELSE a

RECURSIVE BFromInt(_)
BFromInt(n) == IF n = 0 THEN <<>> ELSE <<n % Base>> \o BFromInt(n \div Base)

RECURSIVE BToInt(_)
BToInt(a) == IF a = <<>> THEN 0 ELSE Head(a) + Base * BToInt(Tail(a))

RECURSIVE BCmpFrom(_, _, _)
BCmpFrom(a, b, i) ==
  IF i = 0 THEN 0
  ELSE IF a[i] > b[i] THEN 1
  ELSE IF a[i] < b[i] THEN -1
  ELSE BCmpFrom(a, b, i - 1)

BCmp(a, b) ==
  IF Len(a) > Len(b) THEN 1
  ELSE IF Len(a) < Len(b) THEN -1
  ELSE BCmpFrom(a, b, Len(a))

RECURSIVE BAddC(_, _, _)
BAddC(a, b, c) ==
  IF a = <<>> /\ b = <<>> THEN (IF c = 0 THEN <<>> ELSE <<c>>)
  ELSE IF b = <<>> /\ c = 0 THEN a
  ELSE IF a = <<>> /\ c = 0 THEN b
  ELSE LET x == IF a = <<>> THEN 0 ELSE Head(a)
           y == IF b = <<>> THEN 0 ELSE Head(b)
           s == x + y + c
       IN  <<s % Base>> \o BAddC(IF a = <<>> THEN a ELSE Tail(a),
                                 IF b = <<>> THEN b ELSE Tail(b), s \div Base)

BAdd(a, b) == BAddC(a, b, 0)

\* a - b for a >= b, limb by limb with a borrow.
RECURSIVE BSubC(_, _, _)
BSubC(a, b, c) ==
  IF a = <<>> THEN <<>>
  ELSE IF b = <<>> /\ c = 0 THEN a
  ELSE LET y == IF b = <<>> THEN 0 ELSE Head(b)
           d == Head(a) - y - c
       IN  <<IF d < 0 THEN d + Base ELSE d>>
             \o BSubC(Tail(a), IF b = <<>> THEN b ELSE Tail(b), IF d < 0 THEN 1 ELSE 0)

BSub(a, b) == BNorm(BSubC(a, b, 0))

\* a * d + c for a single limb d and a carry c.
RECURSIVE BMulSmallC(_, _, _)
BMulSmallC(a, d, c) ==
  IF a = <<>> THEN (IF c = 0 THEN <<>> ELSE <<c>>)
  ELSE LET s == Head(a) * d + c
       IN  <<s % Base>> \o BMulSmallC(Tail(a), d, s \div Base)

BMulSmall(a, d) == IF d = 0 THEN <<>> ELSE BMulSmallC(a, d, 0)

BShiftLimb(a) == IF a = <<>> THEN <<>> ELSE <<0>> \o a

RECURSIVE BMul(_, _)
BMul(a, b) ==
  IF b = <<>> \/ a = <<>> THEN <<>>
  ELSE BAdd(BMulSmall(a, Head(b)), BShiftLimb(BMul(a, Tail(b))))

\* a * Base^n
BShiftLimbs(a, n) == IF a = <<>> THEN <<>> ELSE [j \in 1..n |-> 0] \o a

\* a * 2^k
BShl(a, k) == BShiftLimbs(BMulSmall(a, Pow2(k % LimbBits)), k \div LimbBits)

\* floor(a / d) for a single limb d > 0: the quotient limbs 1..i, r the
\* remainder carried down from the limbs above i.  Only the top limb of the
\* quotient can be zero, and it is dropped.
RECURSIVE BDivSmallR(_, _, _, _)
BDivSmallR(a, d, i, r) ==
  IF i = 0 THEN <<>>
  ELSE LET cur == r * Base + a[i]
       IN  IF cur \div d = 0 /\ i = Len(a) THEN BDivSmallR(a, d, i - 1, cur % d)
           ELSE BDivSmallR(a, d, i - 1, cur % d) \o <<cur \div d>>

BDivSmall(a, d) == IF d = 1 THEN a ELSE BDivSmallR(a, d, Len(a), 0)

\* floor(a / 2^k)
BShr(a, k) ==
  LET n == k \div LimbBits
  IN  IF n >= Len(a) THEN <<>>
      ELSE BDivSmall(SubSeq(a, n + 1, Len(a)), Pow2(k % LimbBits))

\* a mod 2^k # 0
BLowNonZero(a, k) ==
  LET n == k \div LimbBits
  IN  \/ \E i \in 1..n : i <= Len(a) /\ a[i] # 0
      \/ n + 1 <= Len(a) /\ a[n + 1] % Pow2(k % LimbBits) # 0

BIsOdd(a) == a # <<>> /\ a[1] % 2 = 1

RECURSIVE IntBitLen(_)
IntBitLen(n) == IF n = 0 THEN 0 ELSE 1 + IntBitLen(n \div 2)

BBitLen(a) == IF a = <<>> THEN 0 ELSE (Len(a) - 1) * LimbBits + IntBitLen(a[Len(a)])

(***************************************************************************)
(* Long division (Knuth's algorithm D) by a divisor d whose top limb is at *)
(* least Base/2.  BDivStep divides r * Base + limb, r < d, by d: the digit *)
(* is estimated from the two top limbs and corrected downwards.            *)
(***************************************************************************)
Limb(a, i) == IF i <= Len(a) THEN a[i] ELSE 0

RECURSIVE BFixDigit(_, _, _, _)
BFixDigit(cur, d, q, p) ==
  IF BCmp(p, cur) = 1 THEN BFixDigit(cur, d, q - 1, BSub(p, d))
  ELSE [q |-> q, r |-> BSub(cur, p)]

BDivStep(r, limb, d) ==
  LET cur  == BNorm(<<limb>> \o r)
      n    == Len(d)
      top  == Limb(cur, n + 1) * Base + Limb(cur, n)
      est  == top \div d[n]
      qhat == IF est > Base - 1 THEN Base - 1 ELSE est
  IN  BFixDigit(cur, d, qhat, BMulSmall(d, qhat))

\* Quotient and remainder of a divided by d, given the limbs above i done:
\* q the quotient so far (little-endian, leading zero digits dropped), r the
\* remainder.
RECURSIVE BDivLoop(_, _, _, _, _)
RECURSIVE BDivNext(_, _, _, _, _)
BDivLoop(a, d, i, q, r) ==
  IF i = 0 THEN [q |-> q, r |-> r]
  ELSE BDivNext(a, d, i, q, BDivStep(r, a[i], d))

\* The loop goes on below limb i, whose digit and remainder are s.
BDivNext(a, d, i, q, s) ==
  IF s.q = 0 /\ q = <<>> THEN BDivLoop(a, d, i - 1, <<>>, s.r)
  ELSE BDivLoop(a, d, i - 1, <<s.q>> \o q, s.r)

BDivMod(a, d) == BDivLoop(a, d, Len(a), <<>>, <<>>)

(***************************************************************************)
(* Python floats.  A float is [s, m, e] of value s * m * 2^e with          *)
(* 2^52 <= m < 2^53, or zero.  The magnitudes the engine handles stay far  *)
(* from the overflow and subnormal ranges, which are not modelled.         *)
(***************************************************************************)
Precision == 53

FZero == [s |-> 1, m |-> <<>>, e |-> 0]

FIsZero(a) == a.m = <<>>

\* A mantissa of 53 or 54 bits brought to 53.
RoundCarry(s, q, e) ==
  IF BBitLen(q) > Precision THEN [s |-> s, m |-> BShr(q, 1), e |-> e + 1]
  ELSE [s |-> s, m |-> q, e |-> e]

\* Ties to even: q goes up when the round bit rb is set and either something
\* lies below it (st) or q is odd.
RoundUp(q, rb, st) == IF rb /\ (st \/ BIsOdd(q)) THEN BAdd(q, <<1>>) ELSE q

\* n1 holds the 53 bits kept and the round bit below them.
RoundHalf(s, n1, st, e) == RoundCarry(s, RoundUp(BShr(n1, 1), BIsOdd(n1), st), e)

\* n has k bits more than a mantissa holds.
RoundShift(s, n, e, sticky, k) ==
  RoundHalf(s, BShr(n, k - 1), sticky \/ BLowNonZero(n, k - 1), e + k)

RoundLen(s, n, e, sticky, len) ==
  IF len <= Precision
  THEN [s |-> s, m |-> BShl(n, Precision - len), e |-> e - (Precision - len)]
  ELSE RoundShift(s, n, e, sticky, len - Precision)

\* The float nearest to s * n * 2^e (+ a positive fraction of 2^e below the
\* last bit of n when sticky), ties to even.
RoundPack(s, n, e, sticky) ==
  IF n = <<>> THEN FZero ELSE RoundLen(s, n, e, sticky, BBitLen(n))

FNeg(a) == IF FIsZero(a) THEN a ELSE [a EXCEPT !.s = -a.s]

FMul(a, b) ==
  IF FIsZero(a) \/ FIsZero(b) THEN FZero
  ELSE RoundPack(a.s * b.s, BMul(a.m, b.m), a.e + b.e, FALSE)

\* s1 * x * 2^e + s2 * y * 2^e
FAddAligned(s1, x, s2, y, e) ==
  RoundPack(IF s1 = s2 \/ BCmp(x, y) >= 0 THEN s1 ELSE s2,
            IF s1 = s2 THEN BAdd(x, y)
            ELSE IF BCmp(x, y) >= 0 THEN BSub(x, y)
            ELSE BSub(y, x),
            e, FALSE)

\* a + b with both mantissas brought to the exponent e, the smaller of the two.
FAddAt(a, b, e) == FAddAligned(a.s, BShl(a.m, a.e - e), b.s, BShl(b.m, b.e - e), e)

FAdd(a, b) ==
  IF FIsZero(a) THEN b
  ELSE IF FIsZero(b) THEN a
  ELSE FAddAt(a, b, IF a.e < b.e THEN a.e ELSE b.e)

FSub(a, b) == FAdd(a, FNeg(b))

\* The float of a quotient qr.q with remainder qr.r.
FDivPack(s, qr, e) == RoundPack(s, qr.q, e, qr.r # <<>>)

\* a / b for b # 0: the quotient of the mantissas to 60 binary places, the
\* divisor shifted so that its top limb is full.
FDiv(a, b) ==
  IF FIsZero(a) THEN FZero
  ELSE FDivPack(a.s * b.s, BDivMod(BShl(a.m, 67), BShl(b.m, 7)), a.e - b.e - 60)

\* float(n) for an integer n
FromInt(n) ==
  IF n < 0 THEN RoundPack(-1, BFromInt(-n), 0, FALSE)
  ELSE RoundPack(1, BFromInt(n), 0, FALSE)

\* The float a literal num/den denotes: the float nearest to the quotient.
FromRatio(num, den) == FDiv(FromInt(num), FromInt(den))

\* int(a): truncation toward zero
FTrunc(a) ==
  IF FIsZero(a) THEN 0
  ELSE IF a.e >= 0 THEN a.s * BToInt(BShl(a.m, a.e))
  ELSE a.s * BToInt(BShr(a.m, -a.e))

FSign(a) == IF FIsZero(a) THEN 0 ELSE a.s

\* -1, 0, 1 as a < b, a = b, a > b
FCmp(a, b) ==
  IF FSign(a) # FSign(b) THEN (IF FSign(a) < FSign(b) THEN -1 ELSE 1)
  ELSE IF FSign(a) = 0 THEN 0
  ELSE LET mag == IF a.e # b.e THEN (IF a.e < b.e THEN -1 ELSE 1) ELSE BCmp(a.m, b.m)
       IN  a.s * mag

FLt(a, b) == FCmp(a, b) = -1

FLe(a, b) == FCmp(a, b) # 1

FGt(a, b) == FCmp(a, b) = 1

FGe(a, b) == FCmp(a, b) # -1

\* floor(a / d) for any d > 0: both are shifted until the top limb of the
\* divisor is full.
BDivFloor(a, d) ==
  LET k == (LimbBits - (BBitLen(d) % LimbBits)) % LimbBits
  IN  BDivMod(BShl(a, k), BShl(d, k)).q

\* floor(sqrt(n)) by Newton's iteration from an x >= sqrt(n); y is the
\* iterate after x.
RECURSIVE BSqrtLoop(_, _)
RECURSIVE BSqrtNext(_, _, _)
BSqrtLoop(n, x) == BSqrtNext(n, x, BShr(BAdd(x, BDivFloor(n, x)), 1))

BSqrtNext(n, x, y) == IF BCmp(y, x) >= 0 THEN x ELSE BSqrtLoop(n, y)

\* The float of the root r = floor(sqrt(n)), inexact unless r * r = n.
FSqrtPack(n, r, e) == RoundPack(1, r, e, BCmp(BMul(r, r), n) # 0)

FSqrtRoot(n, e) == FSqrtPack(n, BSqrtLoop(n, BShl(<<1>>, 56)), e)

\* The root of the mantissa scaled by 2^k, k chosen to leave an even exponent.
FSqrtScaled(a, k) == FSqrtRoot(BShl(a.m, k), (a.e - k) \div 2)

\* sqrt(a) for a > 0, correctly rounded: the root of the mantissa scaled to
\* 111 or 112 bits, with an even exponent left over.
FSqrt(a) == FSqrtScaled(a, IF (a.e - 58) % 2 = 0 THEN 58 ELSE 59)

(***************************************************************************)
(* numpy float64 values, as the DataFrame columns and the scalars read     *)
(* from them hold: the floats above, NaN and the two infinities.  A        *)
(* division by zero is no exception there: it yields NaN or an infinity.   *)
(* Zero carries no sign in this model.                                     *)
(***************************************************************************)
\* The missing value of a float column.
NaN == [s |-> 0, m |-> <<>>, e |-> 0]

IsNaN(x) == x.s = 0

Inf(s) == [s |-> s, m |-> <<>>, e |-> 1]

IsInf(x) == x.s # 0 /\ x.m = <<>> /\ x.e = 1

NpIsZero(x) == ~IsNaN(x) /\ ~IsInf(x) /\ FIsZero(x)

NpNeg(a) == IF IsNaN(a) THEN NaN ELSE IF IsInf(a) THEN Inf(-a.s) ELSE FNeg(a)

NpMul(a, b) ==
  IF IsNaN(a) \/ IsNaN(b) THEN NaN
  ELSE IF IsInf(a) \/ IsInf(b)
    THEN (IF NpIsZero(a) \/ NpIsZero(b) THEN NaN ELSE Inf(a.s * b.s))
  ELSE FMul(a, b)

NpAdd(a, b) ==
  IF IsNaN(a) \/ IsNaN(b) THEN NaN
  ELSE IF IsInf(a) /\ IsInf(b) THEN (IF a.s = b.s THEN a ELSE NaN)
  ELSE IF IsInf(a) THEN a
  ELSE IF IsInf(b) THEN b
  ELSE FAdd(a, b)

NpSub(a, b) == NpAdd(a, NpNeg(b))

NpDiv(a, b) ==
  IF IsNaN(a) \/ IsNaN(b) THEN NaN
  ELSE IF IsInf(b) THEN (IF IsInf(a) THEN NaN ELSE FZero)
  ELSE IF IsInf(a) THEN Inf(a.s * (IF FIsZero(b) THEN 1 ELSE b.s))
  ELSE IF FIsZero(b) THEN (IF FIsZero(a) THEN NaN ELSE Inf(a.s))
  ELSE FDiv(a, b)

\* a > b; False when either is NaN
NpGt(a, b) ==
  IF IsNaN(a) \/ IsNaN(b) THEN FALSE
  ELSE IF IsInf(a) THEN a.s = 1 /\ b # a
  ELSE IF IsInf(b) THEN b.s = -1
  ELSE FGt(a, b)

NpLt(a, b) == NpGt(b, a)

\* np.sqrt
NpSqrt(a) ==
  IF IsNaN(a) THEN NaN
  ELSE IF IsInf(a) THEN (IF a.s = 1 THEN a ELSE NaN)
  ELSE IF FIsZero(a) THEN FZero
  ELSE IF a.s = -1 THEN NaN
  ELSE FSqrt(a)

(***************************************************************************)
(* Backtest (src/backtest.py).  The rows of the DataFrame handed to        *)
(* run_backtest are revealed one period at a time: data holds the rows the *)
(* loop has consumed, and the run may end after any number of rows up to   *)
(* MaxPeriods.                                                             *)
(***************************************************************************)
MaxPeriods == 3

\* (initial_capital, commission) pairs a Backtest is constructed with.
Capitals == {FromInt(10000), FromInt(1000), FromInt(110), FromInt(50)}

Commissions == {FromRatio(1, 1000)}

\* Closing prices of a period.
Prices == {FromInt(100), FromRatio(27, 10)}

\* Values of the Signal column: 1 = Buy, -1 = Sell, 0 = Hold.
Signals == {1, 0, -1}

VARIABLES
  initial_capital,        \* self.initial_capital
  commission,             \* self.commission
  self_trades,            \* self.trades
  self_portfolio_values,  \* self.portfolio_values
  data,                   \* rows of the DataFrame consumed so far
  cash,                   \* run_backtest locals
  shares,
  portfolio_value,
  portfolio_values,
  trade_log,
  results,                \* the dict run_backtest returns
  earlier,                \* the DataFrames of the earlier run_backtest calls
  pc                      \* "loop": in the for loop; "done": returned;
                          \* then "summarised", "plotted", "saved"

btvars == <<initial_capital, commission, self_trades, self_portfolio_values, data,
            cash, shares, portfolio_value, portfolio_values, trade_log, results,
            earlier, pc>>

\* The strategy functions (src/strategy.py) and the DataFrames they pass on.
VARIABLES
  close,                  \* the Close column of the input DataFrame
  short_window,
  long_window,
  ma_df,                  \* the MA_<window> columns calculate_moving_averages adds
  signal_df,              \* the Signal and Position columns generate_signals adds
  stage                   \* "input", "averaged", "signalled"

stvars == <<close, short_window, long_window, ma_df, signal_df, stage>>

vars == <<btvars, stvars>>

\* A Buy gate that forgets the position.
BuyGuardAnyPosition(signal, held) == signal = 1

\* if signal == 1 and shares == 0
BuyGuard(signal, held) == signal = 1 /\ held = 0

\* A Sell gate that forgets the position.
SellGuardAnyPosition(signal, held) == signal = -1

\* elif signal == -1 and shares > 0
SellGuard(signal, held) == signal = -1 /\ held > 0

\* commission_cost = cash * self.commission
BuyCommission(c, r) == FMul(c, r)

\* An order sized on the whole cash, with nothing kept for the commission.
SharesToBuyGross(c, r, price) == FTrunc(FDiv(c, price))

\* shares_to_buy = int((cash - commission_cost) / price)
SharesToBuy(c, r, price) == FTrunc(FDiv(FSub(c, BuyCommission(c, r)), price))

\* cost = shares_to_buy * price
BuyCost(n, price) == FMul(FromInt(n), price)

\* A Buy that debits the cost of the shares and forgets the commission.
CashAfterBuyNoFee(c, r, price) == FSub(c, BuyCost(SharesToBuy(c, r, price), price))

\* cash -= (cost + commission_cost)
CashAfterBuy(c, r, price) ==
  FSub(c, FAdd(BuyCost(SharesToBuy(c, r, price), price), BuyCommission(c, r)))

\* A Buy record that files the cost of the shares under Proceeds.
BuyTradeAsProceeds(date, c, held, r, price) ==
  [Date |-> date, Action |-> "BUY", Shares |-> SharesToBuy(c, r, price), Price |-> price,
   Proceeds |-> BuyCost(SharesToBuy(c, r, price), price), Commission |-> BuyCommission(c, r),
   Cash_After |-> CashAfterBuy(c, r, price),
   Shares_After |-> held + SharesToBuy(c, r, price)]

BuyTrade(date, c, held, r, price) ==
  [Date |-> date, Action |-> "BUY", Shares |-> SharesToBuy(c, r, price), Price |-> price,
   Cost |-> BuyCost(SharesToBuy(c, r, price), price), Commission |-> BuyCommission(c, r),
   Cash_After |-> CashAfterBuy(c, r, price),
   Shares_After |-> held + SharesToBuy(c, r, price)]

\* proceeds = shares * price
Proceeds(held, price) == FMul(FromInt(held), price)

\* A Sell commission taken on the price of one share.
SellCommissionOnPrice(held, r, price) == FMul(price, r)

\* commission_cost = proceeds * self.commission
SellCommission(held, r, price) == FMul(Proceeds(held, price), r)

\* A Sell that credits the proceeds and forgets the commission.
CashAfterSellNoFee(c, held, r, price) == FAdd(c, Proceeds(held, price))

\* cash += (proceeds - commission_cost)
CashAfterSell(c, held, r, price) ==
  FAdd(c, FSub(Proceeds(held, price), SellCommission(held, r, price)))

SellTrade(date, c, held, r, price) ==
  [Date |-> date, Action |-> "SELL", Shares |-> held, Price |-> price,
   Proceeds |-> Proceeds(held, price), Commission |-> SellCommission(held, r, price),
   Cash_After |-> CashAfterSell(c, held, r, price), Shares_After |-> 0]

\* A Sell that leaves the shares in place.
SharesKeptAfterSell(held) == held

\* shares = 0, after a Sell
SharesAfterSell(held) == 0

\* A portfolio value that leaves the position out.
PortfolioValueCashOnly(c, held, price) == c

\* portfolio_value = cash + (shares * price)
PortfolioValue(c, held, price) == FAdd(c, FMul(FromInt(held), price))

Snapshot(date, c, held, price) ==
  [Date |-> date, Cash |-> c, Shares |-> held, Price |-> price,
   Portfolio_Value |-> PortfolioValue(c, held, price)]

\* No strategy call is in progress.
StrategyIdle ==
  /\ close = <<>>
  /\ short_window = 0
  /\ long_window = 0
  /\ ma_df = <<>>
  /\ signal_df = <<>>
  /\ stage = "idle"

Init ==
  /\ StrategyIdle
  /\ initial_capital \in Capitals
  /\ commission \in Commissions
  /\ self_trades = <<>>
  /\ self_portfolio_values = <<>>
  /\ data = <<>>
  /\ cash = initial_capital
  /\ shares = 0
  /\ portfolio_value = initial_capital
  /\ portfolio_values = <<>>
  /\ trade_log = <<>>
  /\ results = <<>>
  /\ earlier = <<>>
  /\ pc = "loop"

\* One iteration of the for loop, on the row (price, signal).
Iteration(price, signal) ==
  /\ pc = "loop"
  /\ LET date == Len(data) + 1
         buys == BuyGuard(signal, shares) /\ SharesToBuy(cash, commission, price) > 0
         sells == ~BuyGuard(signal, shares) /\ SellGuard(signal, shares)
         cash1 == IF buys THEN CashAfterBuy(cash, commission, price)
                  ELSE IF sells THEN CashAfterSell(cash, shares, commission, price)
                  ELSE cash
         shares1 == IF buys THEN shares + SharesToBuy(cash, commission, price)
                    ELSE IF sells THEN SharesAfterSell(shares)
                    ELSE shares
     IN  /\ data' = Append(data, [Close |-> price, Signal |-> signal])
         /\ trade_log' =
              IF buys THEN Append(trade_log, BuyTrade(date, cash, shares, commission, price))
              ELSE IF sells
                THEN Append(trade_log, SellTrade(date, cash, shares, commission, price))
              ELSE trade_log
         /\ cash' = cash1
         /\ shares' = shares1
         /\ portfolio_value' = PortfolioValue(cash1, shares1, price)
         /\ portfolio_values' = Append(portfolio_values, Snapshot(date, cash1, shares1, price))
  /\ UNCHANGED <<initial_capital, commission, self_trades, self_portfolio_values, results,
                 earlier, pc>>
  /\ UNCHANGED stvars

\* An iteration on a DataFrame of up to MaxPeriods rows.
Step(price, signal) == Len(data) < MaxPeriods /\ Iteration(price, signal)

(***************************************************************************)
(* _calculate_performance_metrics                                          *)
(***************************************************************************)
\* final_value = portfolio_df['Portfolio_Value'].iloc[-1]
FinalValue(pvs) == pvs[Len(pvs)].Portfolio_Value

\* total_return = (final_value - self.initial_capital) / self.initial_capital
TotalReturn(pvs, c0) == NpDiv(NpSub(FinalValue(pvs), c0), c0)

\* buy_hold_return = (end_price - start_price) / start_price
BuyHoldReturn(df) == NpDiv(NpSub(df[Len(df)].Close, df[1].Close), df[1].Close)

\* portfolio_df['Daily_Return'] = portfolio_df['Portfolio_Value'].pct_change():
\* value / previous value - 1, missing in the first row.
DailyReturn(pvs, i) ==
  IF i = 1 THEN NaN
  ELSE NpSub(NpDiv(pvs[i].Portfolio_Value, pvs[i - 1].Portfolio_Value), FromInt(1))

\* The Daily_Return column of the first i snapshots.
RECURSIVE DailyReturns(_, _)
DailyReturns(pvs, i) ==
  IF i = 0 THEN <<>> ELSE Append(DailyReturns(pvs, i - 1), DailyReturn(pvs, i))

\* The number of values of a column that are not missing.
CountValid(col) == Cardinality({i \in 1..Len(col) : ~IsNaN(col[i])})

\* The sum of the first i values of a column, added in order, a missing
\* value counted as 0.
RECURSIVE SumSeq(_, _)
SumSeq(col, i) ==
  IF i = 0 THEN FZero
  ELSE NpAdd(SumSeq(col, i - 1), IF IsNaN(col[i]) THEN FZero ELSE col[i])

Square(x) == NpMul(x, x)

\* The sum of the squared deviations from avg of the first i values of a
\* column, a missing value counted as 0.
RECURSIVE SumSquares(_, _, _)
SumSquares(col, avg, i) ==
  IF i = 0 THEN FZero
  ELSE NpAdd(SumSquares(col, avg, i - 1),
             IF IsNaN(col[i]) THEN FZero ELSE Square(NpSub(avg, col[i])))

\* The mean of the values of a column that are not missing.
ColumnMean(col) == NpDiv(SumSeq(col, Len(col)), FromInt(CountValid(col)))

\* The sample variance (ddof = 1) by the two-pass formula.
ColumnVar(col) ==
  NpDiv(SumSquares(col, ColumnMean(col), Len(col)), FromInt(CountValid(col) - 1))

\* portfolio_df['Daily_Return'].std(): the sample standard deviation
\* (ddof = 1) of the values that are not missing; missing when fewer than
\* two values are present.
ColumnStd(col) == IF CountValid(col) <= 1 THEN NaN ELSE NpSqrt(ColumnVar(col))

ReturnsStd(pvs) == ColumnStd(DailyReturns(pvs, Len(pvs)))

\* Trading periods in a year.
TradingDays == 252

\* volatility = portfolio_df['Daily_Return'].std() * np.sqrt(252)
Volatility(pvs) == NpMul(ReturnsStd(pvs), FSqrt(FromInt(TradingDays)))

\* A guard that lets a zero volatility through.
VolatilityNotNegative(v) == ~NpLt(v, FZero) /\ ~IsNaN(v)

\* ... if volatility > 0
VolatilityPositive(v) == NpGt(v, FZero)

\* sharpe_ratio = (total_return * 252) / (volatility * 252) if volatility > 0 else 0
SharpeRatio(total_return, volatility) ==
  IF VolatilityPositive(volatility)
  THEN NpDiv(NpMul(total_return, FromInt(TradingDays)),
             NpMul(volatility, FromInt(TradingDays)))
  ELSE FZero

\* A peak that stays at the first value.
PeakFirst(pvs, i) == pvs[1].Portfolio_Value

\* portfolio_df['Peak'] = portfolio_df['Portfolio_Value'].expanding().max()
RECURSIVE Peak(_, _)
Peak(pvs, i) ==
  IF i = 1 THEN pvs[1].Portfolio_Value
  ELSE LET prev == Peak(pvs, i - 1)
       IN  IF NpGt(pvs[i].Portfolio_Value, prev) THEN pvs[i].Portfolio_Value ELSE prev

\* portfolio_df['Drawdown'] = (Portfolio_Value - Peak) / Peak
Drawdown(pvs, i) == NpDiv(NpSub(pvs[i].Portfolio_Value, Peak(pvs, i)), Peak(pvs, i))

\* max_drawdown = portfolio_df['Drawdown'].min(), over the rows 1..i: the
\* least value that is not missing, missing when all are.
RECURSIVE MinDrawdown(_, _)
MinDrawdown(pvs, i) ==
  IF i = 0 THEN NaN
  ELSE LET rest == MinDrawdown(pvs, i - 1)
           cur  == Drawdown(pvs, i)
       IN  IF IsNaN(cur) THEN rest
           ELSE IF IsNaN(rest) THEN cur
           ELSE IF NpLt(cur, rest) THEN cur ELSE rest

\* A comparison that counts a break-even pair as a win.
PairProfitableOrEven(buy_trade, sell_trade) == FGe(sell_trade.Proceeds, buy_trade.Cost)

\* if sell_trade['Proceeds'] > buy_trade['Cost']
PairProfitable(buy_trade, sell_trade) == FGt(sell_trade.Proceeds, buy_trade.Cost)

\* The win-rate loop, for i in range(0, len(self.trades) - 1, 2), from the
\* (0-based) index i on: the number of pairs counted profitable.
RECURSIVE ProfitableTrades(_, _)
ProfitableTrades(trades, i) ==
  IF i >= Len(trades) - 1 THEN 0
  ELSE (IF i + 1 < Len(trades) /\ PairProfitable(trades[i + 1], trades[i + 2]) THEN 1 ELSE 0)
       + ProfitableTrades(trades, i + 2)

\* The loop reads buy_trade['Cost'] and sell_trade['Proceeds']: a KeyError
\* when a record lacks the key.
PairKeysPresent(trades) ==
  \A i \in 0..(Len(trades) - 2) :
    i % 2 = 0 => "Cost" \in DOMAIN trades[i + 1] /\ "Proceeds" \in DOMAIN trades[i + 2]

\* A pair count that takes an unmatched trade for a pair.
TradePairsRoundedUp(trades) == (Len(trades) + 1) \div 2

\* total_trades = len(self.trades) // 2
TradePairs(trades) == Len(trades) \div 2

\* win_rate = profitable_trades / total_trades if total_trades > 0 else 0
WinRate(trades) ==
  IF trades # <<>> /\ TradePairs(trades) > 0
  THEN FDiv(FromInt(ProfitableTrades(trades, 0)), FromInt(TradePairs(trades)))
  ELSE FZero

\* The divisions the metrics evaluate, each with its divisor: four are
\* unconditional, the risk-adjusted ratio and the win rate are behind a test.
Divisions(df, c0, pvs, trades) ==
  {[of |-> "total_return", divisor |-> c0],
   [of |-> "buy_hold_return", divisor |-> df[1].Close]}
  \cup {[of |-> "Daily_Return", divisor |-> pvs[i - 1].Portfolio_Value] : i \in 2..Len(pvs)}
  \cup {[of |-> "Drawdown", divisor |-> Peak(pvs, i)] : i \in 1..Len(pvs)}
  \cup (IF VolatilityPositive(Volatility(pvs))
        THEN {[of |-> "sharpe_ratio",
               divisor |-> NpMul(Volatility(pvs), FromInt(TradingDays))]}
        ELSE {})
  \cup (IF trades # <<>> /\ TradePairs(trades) > 0
        THEN {[of |-> "win_rate", divisor |-> FromInt(TradePairs(trades))]}
        ELSE {})

Hundred == FromInt(100)

\* portfolio_df as returned: the snapshots, indexed by Date, with the columns
\* the metrics add.
PortfolioDF(pvs) ==
  [i \in 1..Len(pvs) |->
     [Date            |-> pvs[i].Date,
      Cash            |-> pvs[i].Cash,
      Shares          |-> pvs[i].Shares,
      Price           |-> pvs[i].Price,
      Portfolio_Value |-> pvs[i].Portfolio_Value,
      Daily_Return    |-> DailyReturn(pvs, i),
      Peak            |-> Peak(pvs, i),
      Drawdown        |-> Drawdown(pvs, i)]]

\* pd.DataFrame(self.trades): one row per trade over the union of the
\* records' keys, NaN where a record has no such key.
TradesDF(trades) ==
  LET columns == UNION {DOMAIN trades[k] : k \in 1..Len(trades)}
  IN  [k \in 1..Len(trades) |->
         [c \in columns |-> IF c \in DOMAIN trades[k] THEN trades[k][c] ELSE NaN]]

Metrics(df, c0, pvs, trades) ==
  IF pvs = <<>> THEN <<>>
  ELSE LET total_return    == TotalReturn(pvs, c0)
           buy_hold_return == BuyHoldReturn(df)
           volatility      == Volatility(pvs)
       IN  [initial_capital      |-> c0,
            final_value          |-> FinalValue(pvs),
            total_return_pct     |-> NpMul(total_return, Hundred),
            buy_hold_return_pct  |-> NpMul(buy_hold_return, Hundred),
            buy_hold_final_value |-> NpMul(c0, NpAdd(FromInt(1), buy_hold_return)),
            excess_return_pct    |-> NpMul(NpSub(total_return, buy_hold_return), Hundred),
            volatility_pct       |-> NpMul(volatility, Hundred),
            sharpe_ratio         |-> SharpeRatio(total_return, volatility),
            max_drawdown_pct     |-> NpMul(MinDrawdown(pvs, Len(pvs)), Hundred),
            total_trades         |-> Len(trades),
            trade_pairs          |-> IF trades # <<>> THEN TradePairs(trades) ELSE 0,
            win_rate_pct         |-> FMul(WinRate(trades), Hundred),
            portfolio_df         |-> PortfolioDF(pvs),
            trades_df            |-> TradesDF(trades)]

\* The rows are exhausted: store the logs on the instance, compute the
\* metrics and return them.
Finish ==
  /\ pc = "loop"
  /\ self_trades' = trade_log
  /\ self_portfolio_values' = portfolio_values
  /\ IF PairKeysPresent(trade_log)
     THEN /\ results' = Metrics(data, initial_capital, portfolio_values, trade_log)
          /\ pc' = "done"
     ELSE /\ results' = results
          /\ pc' = "KeyError"
  /\ UNCHANGED <<initial_capital, commission, data, cash, shares, portfolio_value,
                 portfolio_values, trade_log, earlier>>
  /\ UNCHANGED stvars

(***************************************************************************)
(* What main (src/main.py) does with the results: the performance summary, *)
(* the plots, the saved files.                                             *)
(***************************************************************************)
\* print_performance_summary reads results['initial_capital'] first: a
\* KeyError on the empty dict of an empty series.
PrintPerformanceSummary ==
  /\ pc = "done"
  /\ pc' = IF results = <<>> THEN "KeyError" ELSE "summarised"
  /\ UNCHANGED <<initial_capital, commission, self_trades, self_portfolio_values, data,
                 cash, shares, portfolio_value, portfolio_values, trade_log, results,
                 earlier>>
  /\ UNCHANGED stvars

\* shares_bh = results['initial_capital'] / initial_price
\* portfolio_df['Buy_Hold_Value'] = shares_bh * portfolio_df['Price']
BuyHoldValue(c0, portfolio_df, i) ==
  NpMul(NpDiv(c0, portfolio_df[1].Price), portfolio_df[i].Price)

\* portfolio_df after create_equity_curve_plot: the DataFrame of the results,
\* with the column the plot adds to it.
WithBuyHoldValue(res) ==
  [res EXCEPT !.portfolio_df =
     [i \in 1..Len(res.portfolio_df) |->
        [c \in DOMAIN res.portfolio_df[i] \cup {"Buy_Hold_Value"} |->
           IF c = "Buy_Hold_Value"
           THEN BuyHoldValue(res.initial_capital, res.portfolio_df, i)
           ELSE res.portfolio_df[i][c]]]]

\* save_plots: the price chart, the equity curve, the performance summary.
\* Only create_equity_curve_plot writes to what it is given.
SavePlots ==
  /\ pc = "summarised"
  /\ results' = WithBuyHoldValue(results)
  /\ pc' = "plotted"
  /\ UNCHANGED <<initial_capital, commission, self_trades, self_portfolio_values, data,
                 cash, shares, portfolio_value, portfolio_values, trade_log, earlier>>
  /\ UNCHANGED stvars

\* save_results writes the DataFrames and the summary to files.
SaveResults ==
  /\ pc = "plotted"
  /\ pc' = "saved"
  /\ UNCHANGED <<initial_capital, commission, self_trades, self_portfolio_values, data,
                 cash, shares, portfolio_value, portfolio_values, trade_log, results,
                 earlier>>
  /\ UNCHANGED stvars

Next ==
  \/ \E price \in Prices, signal \in Signals : Step(price, signal)
  \/ Finish
  \/ PrintPerformanceSummary
  \/ SavePlots
  \/ SaveResults

Spec == Init /\ [][Next]_vars

(***************************************************************************)
(* Backtest(initial_capital, commission) takes whatever it is given:       *)
(* the same run from a capital or a commission rate outside the ranges     *)
(* the configuration is meant to have.                                     *)
(***************************************************************************)
AnyCapitals == {FZero, FromInt(-50), FromInt(1000)}

AnyCommissions == {FromRatio(1, 1000), FromRatio(3, 2), FromRatio(-1, 2)}

AnyConfigInit ==
  /\ StrategyIdle
  /\ initial_capital \in AnyCapitals
  /\ commission \in AnyCommissions
  /\ self_trades = <<>>
  /\ self_portfolio_values = <<>>
  /\ data = <<>>
  /\ cash = initial_capital
  /\ shares = 0
  /\ portfolio_value = initial_capital
  /\ portfolio_values = <<>>
  /\ trade_log = <<>>
  /\ results = <<>>
  /\ earlier = <<>>
  /\ pc = "loop"

AnyConfigSpec == AnyConfigInit /\ [][Next]_vars

(***************************************************************************)
(* run_backtest called again on the same Backtest, with the DataFrame of   *)
(* the call before.                                                        *)
(***************************************************************************)
MaxRuns == 2

\* A trade log that starts from what the instance has stored.
StartTradeLogStored(stored) == stored

\* trade_log = []
StartTradeLog(stored) == <<>>

\* The start of another run_backtest on the instance: the locals are set
\* anew, the fields keep the logs of the call before until this one ends.
Rerun ==
  /\ pc = "done"
  /\ Len(earlier) + 1 < MaxRuns
  /\ earlier' = Append(earlier, data)
  /\ data' = <<>>
  /\ cash' = initial_capital
  /\ shares' = 0
  /\ portfolio_value' = initial_capital
  /\ portfolio_values' = <<>>
  /\ trade_log' = StartTradeLog(self_trades)
  /\ pc' = "loop"
  /\ UNCHANGED <<initial_capital, commission, self_trades, self_portfolio_values, results>>
  /\ UNCHANGED stvars

\* The DataFrame of this call: that of the call before, if there was one.
Replayed == earlier[Len(earlier)]

ReuseCapitals == {FromInt(1000)}

ReuseInit ==
  /\ StrategyIdle
  /\ initial_capital \in ReuseCapitals
  /\ commission \in Commissions
  /\ self_trades = <<>>
  /\ self_portfolio_values = <<>>
  /\ data = <<>>
  /\ cash = initial_capital
  /\ shares = 0
  /\ portfolio_value = initial_capital
  /\ portfolio_values = <<>>
  /\ trade_log = <<>>
  /\ results = <<>>
  /\ earlier = <<>>
  /\ pc = "loop"

\* The rows the loop may read next: any row in the first call, the next row
\* of the DataFrame of the call before in a later one.
RowsOffered ==
  IF earlier = <<>> THEN [Close : Prices, Signal : Signals]
  ELSE IF Len(data) < Len(Replayed) THEN {Replayed[Len(data) + 1]}
  ELSE {}

ReuseNext ==
  \/ \E row \in RowsOffered :
       \E price \in {row.Close}, signal \in {row.Signal} : Step(price, signal)
  \/ /\ earlier # <<>> => Len(data) = Len(Replayed)
     /\ Finish
  \/ Rerun

ReuseSpec == ReuseInit /\ [][ReuseNext]_vars

(***************************************************************************)
(* The strategy (src/strategy.py): calculate_moving_averages, then         *)
(* generate_signals, on a Close column of up to MaxRows whole-number       *)
(* prices.  Sums of such prices are exact in floating point, so a rolling  *)
(* mean is the correctly rounded quotient of the window's sum by its size. *)
(***************************************************************************)
MaxRows == 4

PriceLevels == {1, 2, 3}

WindowSizes == {1, 2, 3}

\* pandas' rolling sum: the sum after row i entered the window and the row
\* that left it was removed.
RECURSIVE RollingSum(_, _, _)
RollingSum(col, window, i) ==
  IF i = 0 THEN 0
  ELSE RollingSum(col, window, i - 1) + col[i] - (IF i > window THEN col[i - window] ELSE 0)

\* The number of observations in the window at row i.
RollingCount(window, i) == IF i < window THEN i ELSE window

\* A window that is taken to be full one row early.
FirstDefinedRowEarly(window) == window - 1

\* The first row (1-based) at which a window of this size has min_periods =
\* window observations.
FirstDefinedRow(window) == window

\* A rolling mean shifted one row back: row i holds the mean of the window
\* that ends at row i + 1.
RollingMeanShifted(col, window) ==
  [i \in 1..Len(col) |->
     LET j == IF i < Len(col) THEN i + 1 ELSE i
     IN  IF j < FirstDefinedRow(window) THEN NaN
         ELSE FDiv(FromInt(RollingSum(col, window, j)), FromInt(RollingCount(window, j)))]

\* df[price_column].rolling(window=window).mean()
RollingMean(col, window) ==
  [i \in 1..Len(col) |->
     IF i < FirstDefinedRow(window) THEN NaN
     ELSE FDiv(FromInt(RollingSum(col, window, i)), FromInt(RollingCount(window, i)))]

\* calculate_moving_averages: the columns MA_<short_window> and MA_<long_window>,
\* keyed by window (one column when the two windows are equal).
CalculateMovingAverages(col, sw, lw) == [w \in {sw, lw} |-> RollingMean(col, w)]

\* A dropna that looks at the short average only.
RECURSIVE ValidRowsShortOnly(_, _, _)
ValidRowsShortOnly(short_ma, long_ma, i) ==
  IF i = 0 THEN <<>>
  ELSE ValidRowsShortOnly(short_ma, long_ma, i - 1)
         \o (IF IsNaN(short_ma[i]) THEN <<>> ELSE <<i>>)

\* valid_data = df.dropna(subset=[short_ma_col, long_ma_col]): the rows 1..i
\* in which both averages are defined, in order.
RECURSIVE ValidRows(_, _, _)
ValidRows(short_ma, long_ma, i) ==
  IF i = 0 THEN <<>>
  ELSE ValidRows(short_ma, long_ma, i - 1)
         \o (IF IsNaN(short_ma[i]) \/ IsNaN(long_ma[i]) THEN <<>> ELSE <<i>>)

\* A crossover rule that wants a strict inequality on the old side too.
CrossSignalStrictBefore(prev_short, prev_long, current_short, current_long) ==
  IF FLt(prev_short, prev_long) /\ FGt(current_short, current_long) THEN 1
  ELSE IF FGt(prev_short, prev_long) /\ FLt(current_short, current_long) THEN -1
  ELSE 0

\* A crossover rule that accepts a tie on the new side.
CrossSignalTieAfter(prev_short, prev_long, current_short, current_long) ==
  IF FLe(prev_short, prev_long) /\ FGe(current_short, current_long) THEN 1
  ELSE IF FGe(prev_short, prev_long) /\ FLe(current_short, current_long) THEN -1
  ELSE 0

\* The signal of one loop iteration: golden cross 1, death cross -1, else
\* the initial 0.
CrossSignal(prev_short, prev_long, current_short, current_long) ==
  IF FLe(prev_short, prev_long) /\ FGt(current_short, current_long) THEN 1
  ELSE IF FGe(prev_short, prev_long) /\ FLt(current_short, current_long) THEN -1
  ELSE 0

\* df['Signal'] after the crossover loop.
SignalColumn(short_ma, long_ma) ==
  LET valid == ValidRows(short_ma, long_ma, Len(short_ma))
  IN  [idx \in 1..Len(short_ma) |->
         IF Len(valid) < 2 THEN 0
         ELSE IF \E i \in 2..Len(valid) : valid[i] = idx
           THEN LET i == CHOOSE j \in 2..Len(valid) : valid[j] = idx
                IN  CrossSignal(short_ma[valid[i - 1]], long_ma[valid[i - 1]],
                                short_ma[idx], long_ma[idx])
         ELSE 0]

\* A position that a Sell signal does not close.
RECURSIVE PositionKept(_, _)
PositionKept(signal, i) ==
  IF i = 0 THEN 0
  ELSE IF signal[i] = 1 THEN 1
  ELSE PositionKept(signal, i - 1)

\* position after the rows 1..i of the position loop.
RECURSIVE PositionAfter(_, _)
PositionAfter(signal, i) ==
  IF i = 0 THEN 0
  ELSE IF signal[i] = 1 THEN 1
  ELSE IF signal[i] = -1 THEN 0
  ELSE PositionAfter(signal, i - 1)

\* df['Position']
PositionColumn(signal) == [idx \in 1..Len(signal) |-> PositionAfter(signal, idx)]

GenerateSignals(ma, sw, lw) ==
  [Signal   |-> SignalColumn(ma[sw], ma[lw]),
   Position |-> PositionColumn(SignalColumn(ma[sw], ma[lw]))]

\* No backtest is in progress.
BacktestIdle ==
  /\ initial_capital = FZero
  /\ commission = FZero
  /\ self_trades = <<>>
  /\ self_portfolio_values = <<>>
  /\ data = <<>>
  /\ cash = FZero
  /\ shares = 0
  /\ portfolio_value = FZero
  /\ portfolio_values = <<>>
  /\ trade_log = <<>>
  /\ results = <<>>
  /\ earlier = <<>>
  /\ pc = "idle"

StrategyInit ==
  /\ BacktestIdle
  /\ close = <<>>
  /\ short_window \in WindowSizes
  /\ long_window \in WindowSizes
  /\ ma_df = <<>>
  /\ signal_df = <<>>
  /\ stage = "input"

\* One more row of the input DataFrame.
AppendRow(price) ==
  /\ stage = "input"
  /\ Len(close) < MaxRows
  /\ close' = Append(close, price)
  /\ UNCHANGED <<short_window, long_window, ma_df, signal_df, stage>>
  /\ UNCHANGED btvars

CalculateMA ==
  /\ stage = "input"
  /\ ma_df' = CalculateMovingAverages(close, short_window, long_window)
  /\ stage' = "averaged"
  /\ UNCHANGED <<close, short_window, long_window, signal_df>>
  /\ UNCHANGED btvars

GenSignals ==
  /\ stage = "averaged"
  /\ signal_df' = GenerateSignals(ma_df, short_window, long_window)
  /\ stage' = "signalled"
  /\ UNCHANGED <<close, short_window, long_window, ma_df>>
  /\ UNCHANGED btvars

StrategyNext ==
  \/ \E price \in PriceLevels : AppendRow(price)
  \/ CalculateMA
  \/ GenSignals

StrategySpec == StrategyInit /\ [][StrategyNext]_vars

(***************************************************************************)
(* The pipeline of main (src/main.py): create_strategy_data on the Close   *)
(* column, then run_backtest on the DataFrame it returns, row by row.      *)
(***************************************************************************)
PipelineCapitals == {FromInt(1000), FromInt(2)}

PipelineInit ==
  /\ close = <<>>
  /\ short_window \in WindowSizes
  /\ long_window \in WindowSizes
  /\ ma_df = <<>>
  /\ signal_df = <<>>
  /\ stage = "input"
  /\ initial_capital \in PipelineCapitals
  /\ commission \in Commissions
  /\ self_trades = <<>>
  /\ self_portfolio_values = <<>>
  /\ data = <<>>
  /\ cash = initial_capital
  /\ shares = 0
  /\ portfolio_value = initial_capital
  /\ portfolio_values = <<>>
  /\ trade_log = <<>>
  /\ results = <<>>
  /\ earlier = <<>>
  /\ pc = "loop"

\* The next row of strategy_data that run_backtest reads: its Close and its
\* Signal.
StrategyRow ==
  [Close |-> FromInt(close[Len(data) + 1]), Signal |-> signal_df.Signal[Len(data) + 1]]

PipelineNext ==
  \/ \E price \in PriceLevels : AppendRow(price)
  \/ CalculateMA
  \/ GenSignals
  \/ /\ stage = "signalled"
     /\ Len(data) < Len(close)
     /\ \E row \in {StrategyRow} :
          \E price \in {row.Close}, signal \in {row.Signal} : Iteration(price, signal)
  \/ /\ stage = "signalled"
     /\ Len(data) = Len(close)
     /\ Finish

PipelineSpec == PipelineInit /\ [][PipelineNext]_vars

(***************************************************************************)
(* Properties of the backtest, checked under Spec.                         *)
(***************************************************************************)
SetMax(S) == CHOOSE m \in S : \A x \in S : x <= m

LastTrade == trade_log[Len(trade_log)]

\* The row a step of the loop has just consumed.
NewRow == data'[Len(data')]

\* What one iteration of the loop may do to the trade log, cash and shares.
C1_StepGated ==
  Len(data') = Len(data) + 1 =>
    LET appended == Len(trade_log') = Len(trade_log) + 1
        new      == trade_log'[Len(trade_log')]
    IN  /\ trade_log' = trade_log
           \/ (appended /\ SubSeq(trade_log', 1, Len(trade_log)) = trade_log)
        /\ appended /\ new.Action = "BUY" => shares = 0 /\ NewRow.Signal = 1
        /\ appended /\ new.Action = "SELL" => shares > 0 /\ NewRow.Signal = -1
        /\ (NewRow.Signal = 1 /\ shares > 0) \/ (NewRow.Signal = -1 /\ shares = 0) =>
             /\ trade_log' = trade_log
             /\ cash' = cash
             /\ shares' = shares
             /\ pc' = "loop"

\* C1: a Buy trade executes only while Flat (shares = 0) and a Sell trade
\* only while Invested (shares > 0); a Buy signal while Invested or a Sell
\* signal while Flat appends no trade, leaves cash and shares unchanged and
\* raises no error.
C1_GatedTrades == [][C1_StepGated]_vars

\* A run in which a Sell signal came while Flat, then a Buy executed, then a
\* Buy signal came while Invested.
C1_Witness ==
  /\ Len(data) >= 3
  /\ trade_log # <<>>
  /\ \E i \in 1..Len(data) :
       data[i].Signal = -1 /\ (i = 1 \/ portfolio_values[i - 1].Shares = 0)
  /\ \E i \in 2..Len(data) : data[i].Signal = 1 /\ portfolio_values[i - 1].Shares > 0

\* C2: with initial capital > 0, commission rate in [0, 1) and positive
\* prices, cash is >= 0 in every reachable state, and the Cash_After of every
\* Buy trade is >= 0.
C2_CashNonNegative ==
  /\ FGe(cash, FZero)
  /\ \A k \in 1..Len(trade_log) :
       trade_log[k].Action = "BUY" => FGe(trade_log[k].Cash_After, FZero)

\* C3: no two adjacent entries of the trade log have the same action.
C3_Alternating ==
  \A k \in 1..(Len(trade_log) - 1) : trade_log[k].Action # trade_log[k + 1].Action

\* A Buy, its Sell and a second Buy were executed.
C3_Witness ==
  /\ Len(trade_log) = 3
  /\ trade_log[1].Action = "BUY"
  /\ trade_log[2].Action = "SELL"

\* The trades executed in the periods 1..i.
TradesUpTo(i) == {k \in 1..Len(trade_log) : trade_log[k].Date <= i}

\* C4: exactly one snapshot per input period, in input order, whether or not
\* a trade occurred; every snapshot has Portfolio_Value = Cash + Shares x
\* Price, with Cash and Shares the state after the period's trade; at most one
\* trade per period.
C4_Snapshots ==
  /\ Len(portfolio_values) = Len(data)
  /\ \A i \in 1..Len(portfolio_values) :
       LET snap == portfolio_values[i]
       IN  /\ snap.Date = i
           /\ snap.Price = data[i].Close
           /\ snap.Portfolio_Value
                = FAdd(snap.Cash, FMul(FromInt(snap.Shares), snap.Price))
           /\ IF TradesUpTo(i) = {}
              THEN snap.Cash = initial_capital /\ snap.Shares = 0
              ELSE /\ snap.Cash = trade_log[SetMax(TradesUpTo(i))].Cash_After
                   /\ snap.Shares = trade_log[SetMax(TradesUpTo(i))].Shares_After
  /\ portfolio_values # <<>> =>
       /\ portfolio_values[Len(portfolio_values)].Cash = cash
       /\ portfolio_values[Len(portfolio_values)].Shares = shares
  /\ \A k \in 1..Len(trade_log) : trade_log[k].Date \in 1..Len(data)
  /\ \A k \in 1..(Len(trade_log) - 1) : trade_log[k].Date < trade_log[k + 1].Date

\* Three periods: a Buy in the second while the first and the third trade
\* nothing.
C4_Witness ==
  /\ Len(portfolio_values) = 3
  /\ Len(trade_log) = 1
  /\ trade_log[1].Date = 2
  /\ portfolio_values[3].Shares > 0

\* C5: Invested exactly when the most recent trade is a Buy, Flat exactly
\* when the log is empty or ends with a Sell; while Invested the share count is
\* the Shares of that Buy in every period until the matching Sell, whose
\* Shares equals the Buy's.
C5_Position ==
  /\ shares > 0 <=> (trade_log # <<>> /\ LastTrade.Action = "BUY")
  /\ shares = 0 <=> (trade_log = <<>> \/ LastTrade.Action = "SELL")
  /\ \A k \in 1..Len(trade_log) :
       trade_log[k].Action = "BUY" =>
         LET until == IF k < Len(trade_log) THEN trade_log[k + 1].Date - 1
                      ELSE Len(portfolio_values)
         IN  /\ \A i \in trade_log[k].Date..until :
                  portfolio_values[i].Shares = trade_log[k].Shares
             /\ k = Len(trade_log) => shares = trade_log[k].Shares
             /\ k < Len(trade_log) /\ trade_log[k + 1].Action = "SELL" =>
                  trade_log[k + 1].Shares = trade_log[k].Shares

\* A Buy held over a period without a trade, then sold.
C5_Witness ==
  /\ Len(trade_log) = 2
  /\ trade_log[1].Action = "BUY"
  /\ trade_log[2].Action = "SELL"
  /\ trade_log[2].Date = trade_log[1].Date + 2
  /\ shares = 0

\* The pairs (trades[2k], trades[2k+1]) whose Sell proceeds exceed the Buy cost.
WinningPairs(trades) ==
  {k \in 0..((Len(trades) \div 2) - 1) :
     FGt(trades[2 * k + 2].Proceeds, trades[2 * k + 1].Cost)}

\* C10: trade_pairs = floor(total_trades / 2); win_rate = winning pairs /
\* trade_pairs, or 0 when trade_pairs = 0; a trailing unmatched Buy is in no
\* pair; win_rate_pct lies in [0, 100].
C10_WinRate ==
  pc = "done" /\ results # <<>> =>
    LET pairs == results.total_trades \div 2
    IN  /\ results.total_trades = Len(self_trades)
        /\ results.trade_pairs = pairs
        /\ results.win_rate_pct =
             IF pairs = 0 THEN FZero
             ELSE FMul(FDiv(FromInt(Cardinality(WinningPairs(self_trades))),
                            FromInt(pairs)), Hundred)
        /\ FGe(results.win_rate_pct, FZero)
        /\ FLe(results.win_rate_pct, Hundred)

\* A finished run with a winning pair followed by an unmatched Buy.
C10_Witness ==
  /\ pc = "done"
  /\ Len(self_trades) = 3
  /\ results.trade_pairs = 1
  /\ results.win_rate_pct = Hundred

\* The run has returned its results.
Returned == pc \in {"done", "summarised", "plotted", "saved"}

\* Prices [100, 100, 100] with the signals [Hold, Buy, Sell].
Scenario ==
  <<[Close |-> FromInt(100), Signal |-> 0],
    [Close |-> FromInt(100), Signal |-> 1],
    [Close |-> FromInt(100), Signal |-> -1]>>

ScenarioRun ==
  /\ initial_capital = FromInt(10000)
  /\ commission = FromRatio(1, 1000)
  /\ data = Scenario

\* C11: with capital 10000, commission 0.001, prices [100, 100, 100] and
\* signals [Hold, Buy, Sell] the run buys 99 shares with commission 10 and
\* cash 90 left, then sells for proceeds 9900 with commission 9.9, leaving cash
\* 9980.1 and 0 shares; the final portfolio value is 9980.1 and total_trades
\* is 2.
C11_EndToEnd ==
  ScenarioRun =>
    /\ Len(trade_log) = 2
    /\ trade_log[1].Action = "BUY"
    /\ trade_log[1].Date = 2
    /\ trade_log[1].Shares = 99
    /\ trade_log[1].Cost = FromInt(9900)
    /\ trade_log[1].Commission = FromInt(10)
    /\ trade_log[1].Cash_After = FromInt(90)
    /\ trade_log[2].Action = "SELL"
    /\ trade_log[2].Date = 3
    /\ trade_log[2].Proceeds = FromInt(9900)
    /\ trade_log[2].Commission = FromRatio(99, 10)
    /\ trade_log[2].Cash_After = FromRatio(99801, 10)
    /\ trade_log[2].Shares_After = 0
    /\ cash = FromRatio(99801, 10)
    /\ shares = 0
    /\ portfolio_value = FromRatio(99801, 10)
    /\ pc # "KeyError"
    /\ Returned => /\ results.final_value = FromRatio(99801, 10)
                   /\ results.total_trades = 2

\* The scenario has run to its end.
C11_Witness == ScenarioRun /\ pc = "done"

\* C12: a run with one executed Buy and no later Sell ends Invested, with
\* total_trades = 1, trade_pairs = 0 and win_rate_pct = 0, without error.
C12_OpenPosition ==
  pc # "loop" /\ Len(trade_log) = 1 =>
    /\ trade_log[1].Action = "BUY"
    /\ shares > 0
    /\ Returned
    /\ results.total_trades = 1
    /\ results.trade_pairs = 0
    /\ results.win_rate_pct = FZero

\* A Buy in the first period of a rising series, still held at the end.
C12_Witness ==
  /\ pc = "done"
  /\ Len(data) >= 2
  /\ data[1].Signal = 1
  /\ \A i \in 1..(Len(data) - 1) : FLt(data[i].Close, data[i + 1].Close)
  /\ Len(trade_log) = 1
  /\ trade_log[1].Date = 1

ValidCapital == FGt(initial_capital, FZero)

ValidCommission == FGe(commission, FZero) /\ FLt(commission, FromInt(1))

\* C14: a run with initial capital <= 0, a commission rate outside [0, 1) or
\* an empty price series is rejected before the first period is processed: no
\* snapshot and no trade is produced for it, and no results are returned.
C14_RejectedBeforeRun ==
  /\ ~ValidCapital \/ ~ValidCommission =>
       /\ portfolio_values = <<>>
       /\ trade_log = <<>>
       /\ ~Returned
  /\ data = <<>> => ~Returned

\* C15: in the metrics every division is evaluated only with a divisor that
\* is not zero.
C15_DivisionsGuarded ==
  Returned /\ results # <<>> =>
    \A d \in Divisions(data, initial_capital, self_portfolio_values, self_trades) :
      ~NpIsZero(d.divisor)

\* The step that ends a run on the DataFrame of the run before it.
ReplayEnds == earlier # <<>> /\ pc = "loop" /\ pc' # "loop" /\ data = Replayed

\* C16: run_backtest on the same (price, signal) stream, again on the same
\* Backtest, yields the trade log, the snapshots and the metrics of the run
\* before: nothing of the earlier run leaks into the later one.
C16_Deterministic ==
  [][ReplayEnds =>
       /\ trade_log = self_trades
       /\ portfolio_values = self_portfolio_values
       /\ self_trades' = self_trades
       /\ self_portfolio_values' = self_portfolio_values
       /\ results' = results]_vars

\* A second run has ended that traded and holds shares.
C16_Witness ==
  /\ earlier # <<>>
  /\ pc = "done"
  /\ data = Replayed
  /\ Len(data) >= 2
  /\ trade_log # <<>>
  /\ shares > 0

AllHold == data # <<>> /\ \A i \in 1..Len(data) : data[i].Signal = 0

\* C17: an all-Hold stream over a series that is not empty completes without
\* error, with an empty trade log, cash = C0 and 0 shares in every snapshot,
\* final_value = C0, total return 0, risk-adjusted ratio 0, max drawdown 0,
\* trade_pairs 0 and win rate 0.
C17_AllHold ==
  AllHold =>
    /\ trade_log = <<>>
    /\ \A i \in 1..Len(portfolio_values) :
         portfolio_values[i].Cash = initial_capital /\ portfolio_values[i].Shares = 0
    /\ pc # "KeyError"
    /\ Returned =>
         /\ results.final_value = initial_capital
         /\ results.total_return_pct = FZero
         /\ results.sharpe_ratio = FZero
         /\ results.max_drawdown_pct = FZero
         /\ results.total_trades = 0
         /\ results.trade_pairs = 0
         /\ results.win_rate_pct = FZero

\* Three periods of Hold at changing prices: the returns are all zero and so
\* is the volatility.
C17_Witness ==
  /\ pc = "done"
  /\ AllHold
  /\ Len(data) = 3
  /\ data[1].Close # data[2].Close
  /\ results.volatility_pct = FZero

IsPrefix(a, b) == Len(a) <= Len(b) /\ SubSeq(b, 1, Len(a)) = a

\* C18: the logs only grow during the pass, and once the results are returned
\* no later operation (summary, plots, saving) changes their snapshots,
\* trades or metrics.
C18_AppendOnly ==
  [][/\ pc = "loop" => /\ IsPrefix(trade_log, trade_log')
                       /\ IsPrefix(portfolio_values, portfolio_values')
     /\ Returned => /\ results' = results
                    /\ self_trades' = self_trades
                    /\ self_portfolio_values' = self_portfolio_values]_vars

\* C19: on a Buy signal while Flat the commission is cash x r and the order
\* floor((cash - commission) / price) shares; if that is positive, cash is
\* debited shares x price + commission, the shares are credited and one Buy
\* record with Cost = Shares x Price is appended; if it is zero no trade is
\* appended and cash and shares stay as they are.  cash - commission is never
\* negative there, so the truncation of int() is the floor.
C19_Buy ==
  [][Len(data') = Len(data) + 1 /\ NewRow.Signal = 1 /\ shares = 0 =>
       LET price == NewRow.Close
           fee   == FMul(cash, commission)
           n     == FTrunc(FDiv(FSub(cash, fee), price))
           new   == trade_log'[Len(trade_log')]
       IN  /\ FGe(FSub(cash, fee), FZero)
           /\ IF n > 0
              THEN /\ shares' = n
                   /\ cash' = FSub(cash, FAdd(FMul(FromInt(shares'), price), fee))
                   /\ Len(trade_log') = Len(trade_log) + 1
                   /\ IsPrefix(trade_log, trade_log')
                   /\ new.Action = "BUY"
                   /\ new.Shares = n
                   /\ new.Price = price
                   /\ new.Cost = FMul(FromInt(new.Shares), new.Price)
                   /\ new.Commission = fee
                   /\ new.Cash_After = cash'
                   /\ new.Shares_After = n
              ELSE /\ trade_log' = trade_log
                   /\ cash' = cash
                   /\ shares' = shares]_vars

\* A Buy signal that bought nothing for want of cash, and one that bought.
C19_Witness ==
  /\ Len(data) >= 2
  /\ data[1].Signal = 1
  /\ portfolio_values[1].Shares = 0
  /\ portfolio_values[1].Cash = initial_capital
  /\ data[2].Signal = 1
  /\ portfolio_values[2].Shares > 0

\* C20: on a Sell signal while Invested the proceeds are shares x price and
\* the commission proceeds x r; proceeds - commission is credited to cash,
\* shares become 0 and one Sell record with Shares_After 0 is appended: the
\* whole position is sold.
C20_Sell ==
  [][Len(data') = Len(data) + 1 /\ NewRow.Signal = -1 /\ shares > 0 =>
       LET price    == NewRow.Close
           proceeds == FMul(FromInt(shares), price)
           fee      == FMul(proceeds, commission)
           new      == trade_log'[Len(trade_log')]
       IN  /\ cash' = FAdd(cash, FSub(proceeds, fee))
           /\ shares' = 0
           /\ Len(trade_log') = Len(trade_log) + 1
           /\ IsPrefix(trade_log, trade_log')
           /\ new.Action = "SELL"
           /\ new.Shares = shares
           /\ new.Price = price
           /\ new.Proceeds = proceeds
           /\ new.Commission = fee
           /\ new.Cash_After = cash'
           /\ new.Shares_After = 0]_vars

\* A position of several shares was sold in one Sell.
C20_Witness ==
  /\ trade_log # <<>>
  /\ LastTrade.Action = "SELL"
  /\ LastTrade.Shares > 1
  /\ shares = 0

\* The Portfolio_Value column of the returned portfolio_df.
Values == [i \in 1..Len(results.portfolio_df) |-> results.portfolio_df[i].Portfolio_Value]

\* The value never falls below an earlier one.
NeverFalls == \A i \in 1..Len(Values) : \A j \in 1..i : FGe(Values[i], Values[j])

\* C22: over snapshots with positive values the running peak of row i is the
\* maximum of the values up to i and never decreases, every drawdown is
\* (value - peak) / peak and is <= 0, and max_drawdown is the least drawdown,
\* which is 0 exactly when the value never falls below an earlier value.
C22_Drawdown ==
  Returned /\ results # <<>> /\ (\A i \in 1..Len(Values) : FGt(Values[i], FZero)) =>
    LET df == results.portfolio_df
        n  == Len(df)
    IN  /\ n = Len(self_portfolio_values)
        /\ \A i \in 1..n :
             /\ \E j \in 1..i : df[i].Peak = Values[j]
             /\ \A j \in 1..i : FGe(df[i].Peak, Values[j])
             /\ i > 1 => FGe(df[i].Peak, df[i - 1].Peak)
             /\ df[i].Drawdown = FDiv(FSub(Values[i], df[i].Peak), df[i].Peak)
             /\ FLe(df[i].Drawdown, FZero)
        /\ \E i \in 1..n : results.max_drawdown_pct = FMul(df[i].Drawdown, Hundred)
        /\ \A i \in 1..n : FLe(results.max_drawdown_pct, FMul(df[i].Drawdown, Hundred))
        /\ results.max_drawdown_pct = FZero <=> NeverFalls

\* The value rose to a new peak and then fell below it.
C22_Witness ==
  /\ pc = "done"
  /\ results # <<>>
  /\ Len(Values) = 3
  /\ FGt(Values[2], Values[1])
  /\ FLt(Values[3], Values[2])
  /\ results.portfolio_df[3].Peak = Values[2]
  /\ FLt(results.max_drawdown_pct, FZero)

\* C23: in every trade log the entries at the even 0-based indices are Buys
\* and those at the odd ones Sells, so that the win-rate loop finds Cost on
\* trades[i] and Proceeds on trades[i + 1] and raises no KeyError: the only
\* KeyError left is that of the summary of an empty series.
C23_PairFields ==
  /\ \A k \in 1..Len(trade_log) :
       /\ trade_log[k].Action = (IF (k - 1) % 2 = 0 THEN "BUY" ELSE "SELL")
       /\ (k - 1) % 2 = 0 => "Cost" \in DOMAIN trade_log[k]
       /\ (k - 1) % 2 = 1 => "Proceeds" \in DOMAIN trade_log[k]
  /\ PairKeysPresent(trade_log)
  /\ pc = "KeyError" => data = <<>>

\* The win-rate loop has compared a Buy with its Sell, a later Buy left over.
C23_Witness ==
  /\ pc = "done"
  /\ Len(self_trades) = 3
  /\ results.trade_pairs = 1
  /\ results.total_trades = 3

\* The cash and the shares the loop holds when it reads row j.
CashBefore(j) == IF j = 1 THEN initial_capital ELSE portfolio_values[j - 1].Cash

SharesBefore(j) == IF j = 1 THEN 0 ELSE portfolio_values[j - 1].Shares

\* Whether a trade executed in period i, and that trade.
Traded(i) == \E k \in 1..Len(trade_log) : trade_log[k].Date = i

TradeOf(i) == trade_log[CHOOSE k \in 1..Len(trade_log) : trade_log[k].Date = i]

\* Arithmetic without rounding on the numbers the floats stand for:
\* s * m * 2^e with a mantissa m of any length.
XZero == [s |-> 1, m |-> <<>>, e |-> 0]

XInt(n) == IF n = 0 THEN XZero ELSE [s |-> 1, m |-> BFromInt(n), e |-> 0]

XNeg(a) == IF a.m = <<>> THEN a ELSE [a EXCEPT !.s = -a.s]

XMul(a, b) ==
  IF a.m = <<>> \/ b.m = <<>> THEN XZero
  ELSE [s |-> a.s * b.s, m |-> BMul(a.m, b.m), e |-> a.e + b.e]

XAddAligned(s1, x, s2, y, e) ==
  IF s1 = s2 THEN [s |-> s1, m |-> BAdd(x, y), e |-> e]
  ELSE IF BCmp(x, y) = 0 THEN XZero
  ELSE IF BCmp(x, y) = 1 THEN [s |-> s1, m |-> BSub(x, y), e |-> e]
  ELSE [s |-> s2, m |-> BSub(y, x), e |-> e]

XAddAt(a, b, e) == XAddAligned(a.s, BShl(a.m, a.e - e), b.s, BShl(b.m, b.e - e), e)

XAdd(a, b) ==
  IF a.m = <<>> THEN b
  ELSE IF b.m = <<>> THEN a
  ELSE XAddAt(a, b, IF a.e < b.e THEN a.e ELSE b.e)

\* The holdings before the trade of period i at that period's price, less
\* the commission of the trade: cash + shares x price - commission, exactly.
Conserved(i) ==
  XAdd(XAdd(CashBefore(i), XMul(XInt(SharesBefore(i)), portfolio_values[i].Price)),
       XNeg(TradeOf(i).Commission))

\* What the portfolio value of snapshot i is above or below Conserved(i).
ValueGap(i) == XAdd(portfolio_values[i].Portfolio_Value, XNeg(Conserved(i)))

\* |d| <= k * 2^e
AtMost(d, k, e) ==
  \/ d.m = <<>>
  \/ /\ d.e <= e
     /\ BCmp(d.m, BShl(BFromInt(k), e - d.e)) <= 0

\* d is at most k units in the last place of the float v.
WithinUlps(d, k, v) == AtMost(d, k, v.e)

\* Cash and shares of snapshot i are those the loop held before period i.
HoldingsKept(i) ==
  /\ portfolio_values[i].Cash = CashBefore(i)
  /\ portfolio_values[i].Shares = SharesBefore(i)

\* C24, as stated: in a period in which a trade executes the portfolio value
\* of the snapshot equals the holdings before the trade at the period's
\* price, cash + shares x price, less the commission of that trade; in a
\* period without a trade cash and shares are those of the snapshot before.
C24_ValueConserved ==
  \A i \in 1..Len(portfolio_values) :
    IF Traded(i) THEN ValueGap(i) = XZero ELSE HoldingsKept(i)

\* C24, amended: in a period in which a trade executes the portfolio value of
\* the snapshot is within 2 units in its last place of cash + shares x price
\* less the commission of that trade; in a period without a trade cash and
\* shares are those of the snapshot before.
C24_ValueConservedRounded ==
  \A i \in 1..Len(portfolio_values) :
    IF Traded(i)
    THEN WithinUlps(ValueGap(i), 2, portfolio_values[i].Portfolio_Value)
    ELSE HoldingsKept(i)

\* A Sell whose snapshot value is not the conserved amount itself, which no
\* float is, and a period without a trade after it.
C24_Witness ==
  /\ Len(portfolio_values) = 3
  /\ Traded(2)
  /\ TradeOf(2).Action = "SELL"
  /\ ValueGap(2) # XZero
  /\ ~Traded(3)

(***************************************************************************)
(* Properties of the strategy, checked under StrategySpec.                 *)
(***************************************************************************)
ShortMA == ma_df[short_window]

LongMA == ma_df[long_window]

BothDefined(i) == ~IsNaN(ShortMA[i]) /\ ~IsNaN(LongMA[i])

\* The rows before i in which both averages are defined.
DefinedBefore(i) == {j \in 1..(i - 1) : BothDefined(j)}

HasPrev(curr) == BothDefined(curr) /\ DefinedBefore(curr) # {}

Prev(curr) == SetMax(DefinedBefore(curr))

GoldenCross(curr) ==
  /\ HasPrev(curr)
  /\ FLe(ShortMA[Prev(curr)], LongMA[Prev(curr)])
  /\ FGt(ShortMA[curr], LongMA[curr])

DeathCross(curr) ==
  /\ HasPrev(curr)
  /\ FGe(ShortMA[Prev(curr)], LongMA[Prev(curr)])
  /\ FLt(ShortMA[curr], LongMA[curr])

\* C13: the moving-average calculation with short_window >= long_window, or
\* with a window <= 0, fails and produces no moving-average or signal output.
C13_InvalidWindowRejected ==
  short_window >= long_window \/ short_window <= 0 \/ long_window <= 0 =>
    /\ stage \notin {"averaged", "signalled"}
    /\ ma_df = <<>>
    /\ signal_df = <<>>

\* C6: the signal of a period curr is Buy iff prev.short <= prev.long and
\* curr.short > curr.long, Sell iff prev.short >= prev.long and curr.short <
\* curr.long, and Hold otherwise, prev being the immediately preceding period
\* in which both moving averages are defined.
C6_CrossoverRule ==
  stage = "signalled" =>
    \A curr \in 1..Len(close) :
      /\ signal_df.Signal[curr] = 1 <=> GoldenCross(curr)
      /\ signal_df.Signal[curr] = -1 <=> DeathCross(curr)
      /\ signal_df.Signal[curr] = 0 <=> ~GoldenCross(curr) /\ ~DeathCross(curr)

\* A Buy fired on a strict break right after a tie, and a Sell fired later.
C6_Witness ==
  /\ stage = "signalled"
  /\ \E i \in 2..Len(close) :
       /\ signal_df.Signal[i] = 1
       /\ BothDefined(i - 1)
       /\ FCmp(ShortMA[i - 1], LongMA[i - 1]) = 0
       /\ \E j \in (i + 1)..Len(close) : signal_df.Signal[j] = -1

\* C7: in every period in which the short and the long moving average are
\* equal, the signal is Hold, whatever the preceding period.
C7_TieHolds ==
  stage = "signalled" =>
    \A i \in 1..Len(close) :
      BothDefined(i) /\ FCmp(ShortMA[i], LongMA[i]) = 0 => signal_df.Signal[i] = 0

\* Two different windows tie in a period that follows one in which the
\* short average was strictly on one side of the long one.
C7_Witness ==
  /\ stage = "signalled"
  /\ short_window # long_window
  /\ \E i \in 2..Len(close) :
       /\ BothDefined(i - 1) /\ BothDefined(i)
       /\ FCmp(ShortMA[i], LongMA[i]) = 0
       /\ FCmp(ShortMA[i - 1], LongMA[i - 1]) # 0

\* C8: no look-ahead.  The moving averages and the signal of a period are
\* those computed from the series cut after any later period (so two series
\* that agree up to period i agree on them at i), and the signal stream has
\* the length of the input.
C8_NoLookAhead ==
  stage = "signalled" =>
    /\ Len(signal_df.Signal) = Len(close)
    /\ \A k \in 0..Len(close) :
         LET cut  == SubSeq(close, 1, k)
             cma  == CalculateMovingAverages(cut, short_window, long_window)
             csig == GenerateSignals(cma, short_window, long_window)
         IN  \A i \in 1..k :
               /\ cma[short_window][i] = ShortMA[i]
               /\ cma[long_window][i] = LongMA[i]
               /\ csig.Signal[i] = signal_df.Signal[i]

\* A signal fired before the last period of the series.
C8_Witness ==
  /\ stage = "signalled"
  /\ \E i \in 1..(Len(close) - 1) :
       signal_df.Signal[i] # 0 /\ close[i + 1] # close[i]

RECURSIVE SumRows(_, _, _)
SumRows(col, lo, hi) == IF lo > hi THEN 0 ELSE col[lo] + SumRows(col, lo + 1, hi)

\* C9: for every window w and 0-based index i, the moving average is
\* undefined when i < w - 1 and otherwise the arithmetic mean of the w prices
\* at the indices i - w + 1 .. i.
C9_RollingMean ==
  stage \in {"averaged", "signalled"} =>
    \A w \in {short_window, long_window} :
      /\ Len(ma_df[w]) = Len(close)
      /\ \A row \in 1..Len(close) :
           LET i == row - 1
           IN  IF i < w - 1 THEN IsNaN(ma_df[w][row])
               ELSE ma_df[w][row]
                      = FDiv(FromInt(SumRows(close, row - w + 1, row)), FromInt(w))

\* A window of three rows that has slid past its first full position.
C9_Witness ==
  /\ stage = "averaged"
  /\ long_window = 3
  /\ Len(close) = 4
  /\ IsNaN(LongMA[2])
  /\ ~IsNaN(LongMA[3])
  /\ LongMA[4] # LongMA[3]

\* C21: the signal stream has the input's length; it is Hold in every
\* period in which either moving average is undefined and in the first period
\* in which both are defined, and Hold throughout when fewer than two periods
\* have both moving averages defined.
C21_WarmupHolds ==
  stage = "signalled" =>
    /\ Len(signal_df.Signal) = Len(close)
    /\ \A i \in 1..Len(close) :
         ~BothDefined(i) \/ DefinedBefore(i) = {} => signal_df.Signal[i] = 0
    /\ Cardinality({i \in 1..Len(close) : BothDefined(i)}) < 2 =>
         \A i \in 1..Len(close) : signal_df.Signal[i] = 0

\* The averages differ in the first period that has both, which is not the
\* first period of the series, and a signal fires later.
C21_Witness ==
  /\ stage = "signalled"
  /\ \E i \in 2..Len(close) :
       /\ BothDefined(i)
       /\ DefinedBefore(i) = {}
       /\ ShortMA[i] # LongMA[i]
       /\ \E j \in (i + 1)..Len(close) : signal_df.Signal[j] # 0

(***************************************************************************)
(* Properties of the pipeline, checked under PipelineSpec.                 *)
(***************************************************************************)
\* Every Buy signal of the rows 1..i came when at least one share was
\* affordable.
BuysAffordable(i) ==
  \A j \in 1..i :
    signal_df.Signal[j] = 1 =>
      SharesToBuy(CashBefore(j), commission, FromInt(close[j])) >= 1

\* C25: provided every Buy signal arrives when at least one share is
\* affordable, the Position column of generate_signals is 1 in exactly the
\* periods whose snapshot has Shares > 0.
C25_PositionAgrees ==
  \A i \in 1..Len(portfolio_values) :
    BuysAffordable(i) => (signal_df.Position[i] = 1 <=> portfolio_values[i].Shares > 0)

\* A golden cross bought and the death cross of the next period sold.
C25_Witness ==
  /\ Len(portfolio_values) = 4
  /\ BuysAffordable(4)
  /\ signal_df.Position[3] = 1
  /\ portfolio_values[3].Shares > 0
  /\ signal_df.Position[4] = 0
  /\ portfolio_values[4].Shares = 0

=============================================================================
